---- MODULE Spec2Model ----
(***************************************************************************)
(* Model of main.py: the FastAPI playlist-download service.                *)
(*                                                                         *)
(* Three kinds of actors share the module-level dict download_sessions:    *)
(*   - the streaming task of a session: the sync generator                 *)
(*     stream_playlist_download, which StreamingResponse iterates in a     *)
(*     worker thread, one next() per event; after a yield the generator    *)
(*     stays suspended until the event loop asks for the next event;       *)
(*   - the event loop, which runs the async handlers download_endpoint,    *)
(*     cancel_download and list_sessions; cancel_download has no await, so *)
(*     it occupies the loop from its first to its last statement, but the  *)
(*     worker threads and the external processes run on beside it;         *)
(*   - the external yt-dlp download process of each session.               *)
(***************************************************************************)
EXTENDS Integers, Sequences, FiniteSets, TLC

\* ------------------------------------------------------------------ bounds
\* Lines written to stdout by all download processes together.
MaxLines == 2
\* Lines printed by one enumeration run.
MaxEnumLines == 2

\* The session ids uuid.uuid4() can hand out.
Sessions == {"s1", "s2"}

Titles == {"a", "b"}

\* ------------------------------------------------------------------ URLs
\* A URL is a sequence of lexical tokens; YOUTUBE_REGEX is matched over them.
URLS ==
  { <<"https", "://", "www.", "youtube", ".", "com", "/", "list">>,
    <<"youtu", ".", "be", "/">>,
    <<"http", "://", "vimeo", ".", "com", "/", "list">>,
    <<"youtube", ".", "com">>,
    <<"list", "youtube", ".", "com", "/">> }

Tail_n(u, n) == SubSeq(u, n + 1, Len(u))

StartsWith(u, p) == Len(u) >= Len(p) /\ SubSeq(u, 1, Len(p)) = p

\* The remainders of the inputs in R after an optional group matching one of
\* the prefixes in P: the group is either skipped or consumed.
Optional(R, P) ==
  R \cup {Tail_n(u, Len(p)) : <<u, p>> \in {x \in R \X P : StartsWith(x[1], x[2])}}

\* The remainders after a mandatory group matching one of the prefixes in P.
Required(R, P) ==
  {Tail_n(u, Len(p)) : <<u, p>> \in {x \in R \X P : StartsWith(x[1], x[2])}}

\* (https?://)?(www\.)?(youtube|youtu)\.(com|be)/.*  matched at the start of
\* url (re.match); the trailing .* accepts any rest.
YOUTUBE_REGEX(url) ==
  LET r1 == Optional({url}, {<<"http", "://">>, <<"https", "://">>})
      r2 == Optional(r1, {<<"www.">>})
      r3 == Required(r2, {<<"youtube">>, <<"youtu">>})
      r4 == Required(r3, {<<".">>})
      r5 == Required(r4, {<<"com">>, <<"be">>})
      r6 == Required(r5, {<<"/">>})
  IN r6 # {}

validate_youtube_url(url) == YOUTUBE_REGEX(url)

\* ------------------------------------------------------------------ events
NoMsg == <<>>

TotalEvent(n) ==
  [kind |-> "total", video |-> "", completed |-> 0, total |-> n, msg |-> NoMsg]

ProgressEvent(t, c, n) ==
  [kind |-> "progress", video |-> t, completed |-> c, total |-> n, msg |-> NoMsg]

CompleteEvent ==
  [kind |-> "complete", video |-> "", completed |-> 0, total |-> 0, msg |-> NoMsg]

ErrorEvent(m) ==
  [kind |-> "error", video |-> "", completed |-> 0, total |-> 0, msg |-> m]

\* ------------------------------------------------------------------ lines
\* One line of the download process's stdout, by what the loop does with it:
\*   title    a JSON object with a "title" field
\*   notitle  a JSON object without one
\*   blank    whitespace only
\*   garbage  not JSON (json.loads raises JSONDecodeError)
\*   raises   a line the loop raises on, other than by JSONDecodeError: bytes
\*            the text decoder rejects (UnicodeDecodeError at line 105) or a
\*            JSON number, true, false or null (TypeError at line 109)
Line(k, t) == [k |-> k, t |-> t]

LINES ==
  {Line("title", t) : t \in Titles}
    \cup {Line(k, "") : k \in {"notitle", "blank", "garbage", "raises"}}

\* One line of the enumeration run's stdout.
ENUM_LINES == {"id", "noid", "blank", "garbage"}

SeqsUpTo(S, n) == UNION {[1..k -> S] : k \in 0..n}

\* What subprocess.run hands back: the exit code, whether the 30 s timeout
\* expired, and the captured stdout.
ENUM_RUNS == [rc : {0, 1}, timeout : BOOLEAN, out : SeqsUpTo(ENUM_LINES, MaxEnumLines)]

RECURSIVE CountId(_)
CountId(out) ==
  IF out = <<>> THEN 0
  ELSE (IF Head(out) = "id" THEN 1 ELSE 0) + CountId(Tail(out))

\* get_total_videos: raises on timeout, on a non-zero exit and on a line
\* json.loads cannot decode; otherwise counts the lines that carry an id.
get_total_videos(run) ==
  IF run.timeout THEN [ok |-> FALSE, n |-> 0]
  ELSE IF run.rc # 0 THEN [ok |-> FALSE, n |-> 0]
  ELSE IF \E i \in 1..Len(run.out) : run.out[i] = "garbage" THEN [ok |-> FALSE, n |-> 0]
  ELSE [ok |-> TRUE, n |-> CountId(run.out)]

\* ------------------------------------------------------------------ state
VARIABLES
  pool,               \* the ids uuid.uuid4() has yet to hand out, in order
  pc,                 \* position of each session's generator
  playlist_url,       \* the request's URL
  total_videos,       \* local of the generator, -1 before it is assigned
  completed_videos,   \* local of the generator
  events,             \* the frames the generator has yielded, in order
  download_sessions,  \* the registry: session id -> process (named by its session)
  pstate,             \* each download process: "none", "running", "exited"
  returncode,         \* exit code of an exited process
  stderr,             \* what the process left on its standard error
  stdout,             \* the pipe: lines written and not yet read
  written,            \* the lines written so far that the loop does not skip
  nlines,             \* lines written so far by all processes together
  terminated,         \* terminate() was called on the process
  killed,             \* kill() was called on the process
  enumerated,         \* the enumeration run was started for the session
  removals,           \* how often the session id was deleted from the registry
  cancelled,          \* a cancel request for the session was confirmed
  cpc,                \* position of the cancel handler on the event loop
  csid,               \* its session_id argument
  cproc               \* its local variable process

vars ==
  <<pool, pc, playlist_url, total_videos, completed_videos, events, download_sessions,
    pstate, returncode, stderr, stdout, written, nlines, terminated, killed,
    enumerated, removals, cancelled, cpc, csid, cproc>>

regVars == <<download_sessions, removals, cancelled>>
genVars == <<pool, pc, playlist_url, total_videos, completed_videos, events, enumerated>>
procVars == <<pstate, returncode, stderr, stdout, written, nlines>>
sigVars == <<terminated, killed>>
cancelVars == <<cpc, csid, cproc>>

NoUrl == <<>>
NoSession == "none"

\* No request has been made and the registry is empty.
Start ==
  /\ pc = [s \in Sessions |-> "unused"]
  /\ playlist_url = [s \in Sessions |-> NoUrl]
  /\ total_videos = [s \in Sessions |-> -1]
  /\ completed_videos = [s \in Sessions |-> 0]
  /\ events = [s \in Sessions |-> <<>>]
  /\ download_sessions = <<>>
  /\ pstate = [s \in Sessions |-> "none"]
  /\ returncode = [s \in Sessions |-> 0]
  /\ stderr = [s \in Sessions |-> ""]
  /\ stdout = [s \in Sessions |-> <<>>]
  /\ written = [s \in Sessions |-> <<>>]
  /\ nlines = 0
  /\ terminated = [s \in Sessions |-> FALSE]
  /\ killed = [s \in Sessions |-> FALSE]
  /\ enumerated = [s \in Sessions |-> FALSE]
  /\ removals = [s \in Sessions |-> 0]
  /\ cancelled = [s \in Sessions |-> FALSE]
  /\ cpc = "idle"
  /\ csid = NoSession
  /\ cproc = NoSession

\* One download request can be made.
Init ==
  /\ pool = <<"s1">>
  /\ Start

\* ------------------------------------------------------------------ registry
Registered(s) == s \in DOMAIN download_sessions

\* download_sessions[s] = p
Put(d, s, p) == [x \in DOMAIN d \cup {s} |-> IF x = s THEN p ELSE d[x]]

\* del download_sessions[s], for a key that is present
Del(d, s) == [x \in DOMAIN d \ {s} |-> d[x]]

\* list(download_sessions.keys())
list_sessions == DOMAIN download_sessions

\* The event loop is free to run a handler or to resume a suspended generator.
LoopFree == cpc = "idle"

Emit(s, e) == events' = [events EXCEPT ![s] = Append(@, e)]

\* ------------------------------------------------------------------ start
\* The id uuid.uuid4() returns next: one never used before.
FreshId(s) == pool # <<>> /\ s = Head(pool)

\* A download_endpoint that stores the id when the request arrives.
download_endpoint_Registers(s, url) ==
  /\ LoopFree
  /\ FreshId(s)
  /\ pool' = Tail(pool)
  /\ pc' = [pc EXCEPT ![s] = "created"]
  /\ playlist_url' = [playlist_url EXCEPT ![s] = url]
  /\ download_sessions' = Put(download_sessions, s, s)
  /\ UNCHANGED <<total_videos, completed_videos, events, enumerated>>
  /\ UNCHANGED <<removals, cancelled, procVars, sigVars, cancelVars>>

\* download_endpoint: a fresh session id and a generator that has not run
\* yet; StreamingResponse starts iterating it afterwards.
download_endpoint(s, url) ==
  /\ LoopFree
  /\ FreshId(s)
  /\ pool' = Tail(pool)
  /\ pc' = [pc EXCEPT ![s] = "created"]
  /\ playlist_url' = [playlist_url EXCEPT ![s] = url]
  /\ UNCHANGED <<total_videos, completed_videos, events, enumerated>>
  /\ UNCHANGED <<regVars, procVars, sigVars, cancelVars>>

\* Validate without the return at line 64: the error event is followed by
\* the enumeration.
Validate_NoReturn(s, makedirs_ok) ==
  /\ LoopFree
  /\ pc[s] = "created"
  /\ IF ~validate_youtube_url(playlist_url[s])
       THEN /\ Emit(s, ErrorEvent(<<"Invalid YouTube URL">>))
            /\ pc' = [pc EXCEPT ![s] = "enumerate"]
       ELSE IF makedirs_ok
         THEN /\ pc' = [pc EXCEPT ![s] = "enumerate"]
              /\ UNCHANGED events
         ELSE /\ Emit(s, ErrorEvent(<<"exception", "OSError">>))
              /\ pc' = [pc EXCEPT ![s] = "y_exception"]
  /\ UNCHANGED <<pool, playlist_url, total_videos, completed_videos, enumerated>>
  /\ UNCHANGED <<regVars, procVars, sigVars, cancelVars>>

\* Lines 60-67: the first next() runs the URL check and os.makedirs, which
\* may raise OSError (caught at line 128).
Validate(s, makedirs_ok) ==
  /\ LoopFree
  /\ pc[s] = "created"
  /\ IF ~validate_youtube_url(playlist_url[s])
       THEN /\ Emit(s, ErrorEvent(<<"Invalid YouTube URL">>))
            /\ pc' = [pc EXCEPT ![s] = "y_invalid"]
       ELSE IF makedirs_ok
         THEN /\ pc' = [pc EXCEPT ![s] = "enumerate"]
              /\ UNCHANGED events
         ELSE /\ Emit(s, ErrorEvent(<<"exception", "OSError">>))
              /\ pc' = [pc EXCEPT ![s] = "y_exception"]
  /\ UNCHANGED <<pool, playlist_url, total_videos, completed_videos, enumerated>>
  /\ UNCHANGED <<regVars, procVars, sigVars, cancelVars>>

\* Enumerate without the return at line 75: after the error event the
\* generator goes on to start the download.
Enumerate_NoReturn(s, run) ==
  /\ pc[s] = "enumerate"
  /\ enumerated' = [enumerated EXCEPT ![s] = TRUE]
  /\ LET r == get_total_videos(run) IN
       IF r.ok
         THEN /\ total_videos' = [total_videos EXCEPT ![s] = r.n]
              /\ Emit(s, TotalEvent(r.n))
              /\ pc' = [pc EXCEPT ![s] = "y_total"]
         ELSE /\ Emit(s, ErrorEvent(<<"Failed to get playlist info">>))
              /\ pc' = [pc EXCEPT ![s] = "y_total"]
              /\ UNCHANGED total_videos
  /\ UNCHANGED <<pool, playlist_url, completed_videos>>
  /\ UNCHANGED <<regVars, procVars, sigVars, cancelVars>>

\* Lines 70-75: the enumeration run and the total event, or the error event.
Enumerate(s, run) ==
  /\ pc[s] = "enumerate"
  /\ enumerated' = [enumerated EXCEPT ![s] = TRUE]
  /\ LET r == get_total_videos(run) IN
       IF r.ok
         THEN /\ total_videos' = [total_videos EXCEPT ![s] = r.n]
              /\ Emit(s, TotalEvent(r.n))
              /\ pc' = [pc EXCEPT ![s] = "y_total"]
         ELSE /\ Emit(s, ErrorEvent(<<"Failed to get playlist info">>))
              /\ pc' = [pc EXCEPT ![s] = "y_enumfail"]
              /\ UNCHANGED total_videos
  /\ UNCHANGED <<pool, playlist_url, completed_videos>>
  /\ UNCHANGED <<regVars, procVars, sigVars, cancelVars>>

\* Lines 77-97: resumed after the total event, the generator builds the
\* command and starts the download process; Popen may raise OSError.
Launch(s, popen_ok) ==
  /\ LoopFree
  /\ pc[s] = "y_total"
  /\ IF popen_ok
       THEN /\ pstate' = [pstate EXCEPT ![s] = "running"]
            /\ pc' = [pc EXCEPT ![s] = "register"]
            /\ UNCHANGED events
       ELSE /\ Emit(s, ErrorEvent(<<"exception", "OSError">>))
            /\ pc' = [pc EXCEPT ![s] = "y_exception"]
            /\ UNCHANGED pstate
  /\ UNCHANGED <<pool, playlist_url, total_videos, completed_videos, enumerated>>
  /\ UNCHANGED <<returncode, stderr, stdout, written, nlines>>
  /\ UNCHANGED <<regVars, sigVars, cancelVars>>

\* Register without the assignment of line 100.
Register_Forget(s) ==
  /\ pc[s] = "register"
  /\ completed_videos' = [completed_videos EXCEPT ![s] = 0]
  /\ pc' = [pc EXCEPT ![s] = "read"]
  /\ UNCHANGED <<pool, playlist_url, total_videos, events, enumerated>>
  /\ UNCHANGED <<regVars, procVars, sigVars, cancelVars>>

\* Lines 100-102: the process is stored under the session id.
Register(s) ==
  /\ pc[s] = "register"
  /\ download_sessions' = Put(download_sessions, s, s)
  /\ completed_videos' = [completed_videos EXCEPT ![s] = 0]
  /\ pc' = [pc EXCEPT ![s] = "read"]
  /\ UNCHANGED <<pool, playlist_url, total_videos, events, enumerated, removals, cancelled>>
  /\ UNCHANGED <<procVars, sigVars, cancelVars>>

\* ReadLine taking the newest line of the pipe instead of the oldest.
ReadLine_Newest(s) ==
  /\ pc[s] = "read"
  /\ stdout[s] # <<>>
  /\ stdout' = [stdout EXCEPT ![s] = SubSeq(@, 1, Len(@) - 1)]
  /\ LET line == stdout[s][Len(stdout[s])] IN
       CASE line.k = "title" ->
              /\ completed_videos' = [completed_videos EXCEPT ![s] = @ + 1]
              /\ Emit(s, ProgressEvent(line.t, completed_videos[s] + 1, total_videos[s]))
              /\ pc' = [pc EXCEPT ![s] = "y_progress"]
         [] line.k = "raises" ->
              /\ Emit(s, ErrorEvent(<<"exception", "reading output">>))
              /\ pc' = [pc EXCEPT ![s] = "y_exception"]
              /\ UNCHANGED completed_videos
         [] OTHER ->
              UNCHANGED <<completed_videos, events, pc>>
  /\ UNCHANGED <<pool, playlist_url, total_videos, enumerated>>
  /\ UNCHANGED <<pstate, returncode, stderr, written, nlines>>
  /\ UNCHANGED <<regVars, sigVars, cancelVars>>

\* ReadLine without the except clause of lines 117-118: a line that is not
\* JSON ends the loop like any other exception.
ReadLine_GarbageRaises(s) ==
  /\ pc[s] = "read"
  /\ stdout[s] # <<>>
  /\ stdout' = [stdout EXCEPT ![s] = Tail(@)]
  /\ LET line == Head(stdout[s]) IN
       CASE line.k = "title" ->
              /\ completed_videos' = [completed_videos EXCEPT ![s] = @ + 1]
              /\ Emit(s, ProgressEvent(line.t, completed_videos[s] + 1, total_videos[s]))
              /\ pc' = [pc EXCEPT ![s] = "y_progress"]
         [] line.k \in {"raises", "garbage"} ->
              /\ Emit(s, ErrorEvent(<<"exception", "reading output">>))
              /\ pc' = [pc EXCEPT ![s] = "y_exception"]
              /\ UNCHANGED completed_videos
         [] OTHER ->
              UNCHANGED <<completed_videos, events, pc>>
  /\ UNCHANGED <<pool, playlist_url, total_videos, enumerated>>
  /\ UNCHANGED <<pstate, returncode, stderr, written, nlines>>
  /\ UNCHANGED <<regVars, sigVars, cancelVars>>

\* ReadLine with the progress event built before the count is incremented.
ReadLine_StaleCount(s) ==
  /\ pc[s] = "read"
  /\ stdout[s] # <<>>
  /\ stdout' = [stdout EXCEPT ![s] = Tail(@)]
  /\ LET line == Head(stdout[s]) IN
       CASE line.k = "title" ->
              /\ completed_videos' = [completed_videos EXCEPT ![s] = @ + 1]
              /\ Emit(s, ProgressEvent(line.t, completed_videos[s], total_videos[s]))
              /\ pc' = [pc EXCEPT ![s] = "y_progress"]
         [] line.k = "raises" ->
              /\ Emit(s, ErrorEvent(<<"exception", "reading output">>))
              /\ pc' = [pc EXCEPT ![s] = "y_exception"]
              /\ UNCHANGED completed_videos
         [] OTHER ->
              UNCHANGED <<completed_videos, events, pc>>
  /\ UNCHANGED <<pool, playlist_url, total_videos, enumerated>>
  /\ UNCHANGED <<pstate, returncode, stderr, written, nlines>>
  /\ UNCHANGED <<regVars, sigVars, cancelVars>>

\* Lines 105-118: one iteration of the loop over process.stdout.
ReadLine(s) ==
  /\ pc[s] = "read"
  /\ stdout[s] # <<>>
  /\ stdout' = [stdout EXCEPT ![s] = Tail(@)]
  /\ LET line == Head(stdout[s]) IN
       CASE line.k = "title" ->
              /\ completed_videos' = [completed_videos EXCEPT ![s] = @ + 1]
              /\ Emit(s, ProgressEvent(line.t, completed_videos[s] + 1, total_videos[s]))
              /\ pc' = [pc EXCEPT ![s] = "y_progress"]
         [] line.k = "raises" ->
              /\ Emit(s, ErrorEvent(<<"exception", "reading output">>))
              /\ pc' = [pc EXCEPT ![s] = "y_exception"]
              /\ UNCHANGED completed_videos
         [] OTHER ->
              UNCHANGED <<completed_videos, events, pc>>
  /\ UNCHANGED <<pool, playlist_url, total_videos, enumerated>>
  /\ UNCHANGED <<pstate, returncode, stderr, written, nlines>>
  /\ UNCHANGED <<regVars, sigVars, cancelVars>>

\* Line 116 resumed: back to the head of the loop.
NextLine(s) ==
  /\ LoopFree
  /\ pc[s] = "y_progress"
  /\ pc' = [pc EXCEPT ![s] = "read"]
  /\ UNCHANGED <<pool, playlist_url, total_videos, completed_videos, events, enumerated>>
  /\ UNCHANGED <<regVars, procVars, sigVars, cancelVars>>

\* Bytes on standard error that are no text in the pipe's encoding.
Undecodable == "<undecodable>"

\* Finish without the test of the exit code at line 122.
Finish_IgnoreCode(s) ==
  /\ pc[s] = "read"
  /\ stdout[s] = <<>>
  /\ pstate[s] = "exited"
  /\ Emit(s, CompleteEvent)
  /\ pc' = [pc EXCEPT ![s] = "y_complete"]
  /\ UNCHANGED <<pool, playlist_url, total_videos, completed_videos, enumerated>>
  /\ UNCHANGED <<regVars, procVars, sigVars, cancelVars>>

\* Finish without the read of process.stderr at line 125.
Finish_NoStderr(s) ==
  /\ pc[s] = "read"
  /\ stdout[s] = <<>>
  /\ pstate[s] = "exited"
  /\ IF returncode[s] = 0
       THEN /\ Emit(s, CompleteEvent)
            /\ pc' = [pc EXCEPT ![s] = "y_complete"]
       ELSE /\ Emit(s, ErrorEvent(<<"Download failed", "">>))
            /\ pc' = [pc EXCEPT ![s] = "y_failed"]
  /\ UNCHANGED <<pool, playlist_url, total_videos, completed_videos, enumerated>>
  /\ UNCHANGED <<regVars, procVars, sigVars, cancelVars>>

\* Lines 120-126: stdout is at its end once the process has exited and all
\* its lines are read; wait() then returns and the exit code decides. The
\* read of standard error may raise (caught at line 128).
Finish(s) ==
  /\ pc[s] = "read"
  /\ stdout[s] = <<>>
  /\ pstate[s] = "exited"
  /\ IF returncode[s] = 0
       THEN /\ Emit(s, CompleteEvent)
            /\ pc' = [pc EXCEPT ![s] = "y_complete"]
       ELSE IF stderr[s] = Undecodable
         THEN /\ Emit(s, ErrorEvent(<<"exception", "reading stderr">>))
              /\ pc' = [pc EXCEPT ![s] = "y_exception"]
         ELSE /\ Emit(s, ErrorEvent(<<"Download failed", stderr[s]>>))
              /\ pc' = [pc EXCEPT ![s] = "y_failed"]
  /\ UNCHANGED <<pool, playlist_url, total_videos, completed_videos, enumerated>>
  /\ UNCHANGED <<regVars, procVars, sigVars, cancelVars>>

\* The generator is suspended at the yield of its last event.
Terminal == {"y_invalid", "y_enumfail", "y_complete", "y_failed", "y_exception"}

\* The generator has returned, or has raised out of its finally block.
Ended(s) == pc[s] \in {"done", "fault"}

\* CleanupCheck without the finally block: the generator just returns.
CleanupCheck_Skip(s) ==
  /\ LoopFree
  /\ pc[s] \in Terminal
  /\ pc' = [pc EXCEPT ![s] = "done"]
  /\ UNCHANGED <<pool, playlist_url, total_videos, completed_videos, events, enumerated>>
  /\ UNCHANGED <<regVars, procVars, sigVars, cancelVars>>

\* Lines 64, 75 and the ends of the try and except blocks: resumed after its
\* last event, the generator enters the finally block and tests the key.
CleanupCheck(s) ==
  /\ LoopFree
  /\ pc[s] \in Terminal
  /\ pc' = [pc EXCEPT ![s] = IF Registered(s) THEN "del" ELSE "done"]
  /\ UNCHANGED <<pool, playlist_url, total_videos, completed_videos, events, enumerated>>
  /\ UNCHANGED <<regVars, procVars, sigVars, cancelVars>>

\* CleanupDel without the del of line 133.
CleanupDel_Keep(s) ==
  /\ pc[s] = "del"
  /\ pc' = [pc EXCEPT ![s] = "done"]
  /\ UNCHANGED <<pool, playlist_url, total_videos, completed_videos, events, enumerated>>
  /\ UNCHANGED <<regVars, procVars, sigVars, cancelVars>>

\* Line 133: del raises KeyError when the key has gone since line 132.
CleanupDel(s) ==
  /\ pc[s] = "del"
  /\ IF Registered(s)
       THEN /\ download_sessions' = Del(download_sessions, s)
            /\ removals' = [removals EXCEPT ![s] = @ + 1]
            /\ pc' = [pc EXCEPT ![s] = "done"]
       ELSE /\ pc' = [pc EXCEPT ![s] = "fault"]
            /\ UNCHANGED <<download_sessions, removals>>
  /\ UNCHANGED cancelled
  /\ UNCHANGED <<pool, playlist_url, total_videos, completed_videos, events, enumerated>>
  /\ UNCHANGED <<procVars, sigVars, cancelVars>>

\* ------------------------------------------------------------------ process
\* The lines the loop turns into an event: a progress or an error event.
Kept(line) == line.k \in {"title", "raises"}

\* The download process prints one more line.
ProcWrite(p, line) ==
  /\ pstate[p] = "running"
  /\ ~killed[p]
  /\ nlines < MaxLines
  /\ nlines' = nlines + 1
  /\ stdout' = [stdout EXCEPT ![p] = Append(@, line)]
  /\ written' = [written EXCEPT ![p] = IF Kept(line) THEN Append(@, line) ELSE @]
  /\ UNCHANGED <<pstate, returncode, stderr>>
  /\ UNCHANGED <<regVars, genVars, sigVars, cancelVars>>

\* What a process may leave on its standard error: text, or bytes the text
\* decoder rejects (process.stderr.read() then raises UnicodeDecodeError).
ERR_TEXTS == {"ERROR: unavailable", Undecodable}

\* The exit codes open to a process: -9 once killed; otherwise its own (0 or
\* 1) or, after a terminate signal, -15.
ExitCodes(p) ==
  IF killed[p] THEN {-9}
  ELSE IF terminated[p] THEN {0, 1, -15}
  ELSE {0, 1}

\* The download process exits and its stdout reaches end of file.
ProcExit(p, rc, err) ==
  /\ pstate[p] = "running"
  /\ rc \in ExitCodes(p)
  /\ pstate' = [pstate EXCEPT ![p] = "exited"]
  /\ returncode' = [returncode EXCEPT ![p] = rc]
  /\ stderr' = [stderr EXCEPT ![p] = err]
  /\ UNCHANGED <<stdout, written, nlines>>
  /\ UNCHANGED <<regVars, genVars, sigVars, cancelVars>>

\* ------------------------------------------------------------------ cancel
\* CancelCheck without the test of line 150.
CancelCheck_NoTest(sid) ==
  /\ LoopFree
  /\ csid' = sid
  /\ cpc' = "get"
  /\ UNCHANGED cproc
  /\ UNCHANGED <<regVars, genVars, procVars, sigVars>>

\* Lines 150-151: the membership test; 404 when the id is absent.
CancelCheck(sid) ==
  /\ LoopFree
  /\ csid' = sid
  /\ cpc' = IF sid \in DOMAIN download_sessions THEN "get" ELSE "notfound"
  /\ UNCHANGED cproc
  /\ UNCHANGED <<regVars, genVars, procVars, sigVars>>

\* Line 153: the lookup raises KeyError when the key has gone since line 150.
CancelGet ==
  /\ cpc = "get"
  /\ IF csid \in DOMAIN download_sessions
       THEN /\ cproc' = download_sessions[csid]
            /\ cpc' = "terminate"
       ELSE /\ cpc' = "KeyError"
            /\ UNCHANGED cproc
  /\ UNCHANGED csid
  /\ UNCHANGED <<regVars, genVars, procVars, sigVars>>

\* A terminate that signals every process of the registry.
CancelTerminate_All ==
  /\ cpc = "terminate"
  /\ terminated' = [p \in Sessions |-> terminated[p] \/ Registered(p)]
  /\ cpc' = "wait"
  /\ UNCHANGED <<killed, csid, cproc>>
  /\ UNCHANGED <<regVars, genVars, procVars>>

\* Line 155: process.terminate().
CancelTerminate ==
  /\ cpc = "terminate"
  /\ terminated' = [terminated EXCEPT ![cproc] = TRUE]
  /\ cpc' = "wait"
  /\ UNCHANGED <<killed, csid, cproc>>
  /\ UNCHANGED <<regVars, genVars, procVars>>

\* Line 157: wait(timeout=5) returns because the process has exited.
CancelWaitExited ==
  /\ cpc = "wait"
  /\ pstate[cproc] = "exited"
  /\ cpc' = "del"
  /\ UNCHANGED <<csid, cproc>>
  /\ UNCHANGED <<regVars, genVars, procVars, sigVars>>

\* The timed-out wait without the kill of line 159.
CancelWaitTimeout_NoKill ==
  /\ cpc = "wait"
  /\ pstate[cproc] = "running"
  /\ cpc' = "del"
  /\ UNCHANGED <<csid, cproc>>
  /\ UNCHANGED <<regVars, genVars, procVars, sigVars>>

\* The kill of line 159 without the except clause around it: it follows the
\* wait however the wait ended.
CancelWaitTimeout_Always ==
  /\ cpc = "wait"
  /\ killed' = [killed EXCEPT ![cproc] = TRUE]
  /\ cpc' = "del"
  /\ UNCHANGED <<terminated, csid, cproc>>
  /\ UNCHANGED <<regVars, genVars, procVars>>

\* Lines 158-159: the wait times out on a process still running; kill().
CancelWaitTimeout ==
  /\ cpc = "wait"
  /\ pstate[cproc] = "running"
  /\ killed' = [killed EXCEPT ![cproc] = TRUE]
  /\ cpc' = "del"
  /\ UNCHANGED <<terminated, csid, cproc>>
  /\ UNCHANGED <<regVars, genVars, procVars>>

\* Lines 160-162: del raises KeyError when the key has gone since line 150;
\* otherwise the handler returns its confirmation.
CancelDel ==
  /\ cpc = "del"
  /\ IF csid \in DOMAIN download_sessions
       THEN /\ download_sessions' = Del(download_sessions, csid)
            /\ removals' = [removals EXCEPT ![csid] = @ + 1]
            /\ cancelled' = [cancelled EXCEPT ![csid] = TRUE]
            /\ cpc' = "confirmed"
       ELSE /\ cpc' = "KeyError"
            /\ UNCHANGED <<download_sessions, removals, cancelled>>
  /\ UNCHANGED <<csid, cproc>>
  /\ UNCHANGED <<genVars, procVars, sigVars>>

\* The handler has ended: with the confirmation (200), with the HTTPException
\* (404), or with an exception no one catches (500).
Responses == {"confirmed", "notfound", "KeyError"}

\* The response is sent and the event loop is free again.
CancelRespond ==
  /\ cpc \in Responses
  /\ cpc' = "idle"
  /\ csid' = NoSession
  /\ cproc' = NoSession
  /\ UNCHANGED <<regVars, genVars, procVars, sigVars>>

\* ------------------------------------------------------------------ system
Next ==
  \/ \E s \in Sessions, url \in URLS : download_endpoint(s, url)
  \/ \E s \in Sessions, ok \in BOOLEAN : Validate(s, ok)
  \/ \E s \in Sessions, run \in ENUM_RUNS : Enumerate(s, run)
  \/ \E s \in Sessions, ok \in BOOLEAN : Launch(s, ok)
  \/ \E s \in Sessions : Register(s)
  \/ \E s \in Sessions : ReadLine(s)
  \/ \E s \in Sessions : NextLine(s)
  \/ \E s \in Sessions : Finish(s)
  \/ \E s \in Sessions : CleanupCheck(s)
  \/ \E s \in Sessions : CleanupDel(s)
  \/ \E p \in Sessions, line \in LINES : ProcWrite(p, line)
  \/ \E p \in Sessions, rc \in {0, 1, -15, -9}, err \in ERR_TEXTS : ProcExit(p, rc, err)
  \/ \E sid \in Sessions : CancelCheck(sid)
  \/ CancelGet
  \/ CancelTerminate
  \/ CancelWaitExited
  \/ CancelWaitTimeout
  \/ CancelDel
  \/ CancelRespond

Spec == Init /\ [][Next]_vars

\* ------------------------------------------------------------------ two sessions
\* Two download requests can be made.
InitPair ==
  /\ pool = <<"s1", "s2">>
  /\ Start

\* The inputs of the two-session runs: a valid URL, an enumeration that
\* reports two items, lines that carry a title or are not JSON, and readable
\* error text; the
\* directory and the process can be created.
PAIR_URLS == {u \in URLS : validate_youtube_url(u) /\ Len(u) = 4}
PAIR_RUNS == {r \in ENUM_RUNS : r.rc = 0 /\ ~r.timeout /\ r.out = <<"id", "id">>}
PAIR_LINES == {l \in LINES : l.k \in {"title", "garbage"}}
PAIR_TEXTS == ERR_TEXTS \ {Undecodable}

NextPair ==
  \/ \E s \in Sessions, url \in PAIR_URLS : download_endpoint(s, url)
  \/ \E s \in Sessions : Validate(s, TRUE)
  \/ \E s \in Sessions, run \in PAIR_RUNS : Enumerate(s, run)
  \/ \E s \in Sessions : Launch(s, TRUE)
  \/ \E s \in Sessions : Register(s)
  \/ \E s \in Sessions : ReadLine(s)
  \/ \E s \in Sessions : NextLine(s)
  \/ \E s \in Sessions : Finish(s)
  \/ \E s \in Sessions : CleanupCheck(s)
  \/ \E s \in Sessions : CleanupDel(s)
  \/ \E p \in Sessions, line \in PAIR_LINES : ProcWrite(p, line)
  \/ \E p \in Sessions, rc \in {0, 1, -15, -9}, err \in PAIR_TEXTS : ProcExit(p, rc, err)
  \/ \E sid \in Sessions : CancelCheck(sid)
  \/ CancelGet
  \/ CancelTerminate
  \/ CancelWaitExited
  \/ CancelWaitTimeout
  \/ CancelDel
  \/ CancelRespond

SpecPair == InitPair /\ [][NextPair]_vars

\* ------------------------------------------------------------------ fairness
\* The steps a generator takes in its worker thread...
Runs(s) ==
  \/ \E run \in ENUM_RUNS : Enumerate(s, run)
  \/ Register(s)
  \/ ReadLine(s)
  \/ Finish(s)
  \/ CleanupDel(s)

\* ... and the steps it takes when the event loop asks for its next event.
Resumes(s) ==
  \/ \E ok \in BOOLEAN : Validate(s, ok)
  \/ \E ok \in BOOLEAN : Launch(s, ok)
  \/ NextLine(s)
  \/ CleanupCheck(s)

\* The steps of a cancel handler after its first.
CancelRuns ==
  \/ CancelGet
  \/ CancelTerminate
  \/ CancelWaitExited
  \/ CancelWaitTimeout
  \/ CancelDel
  \/ CancelRespond

\* A process that was sent SIGKILL exits.
Dies(p) == \E err \in ERR_TEXTS : killed[p] /\ ProcExit(p, -9, err)

\* Scheduling: a worker thread that can run does; a suspended generator is
\* resumed if the event loop is free again and again (the client keeps
\* reading); a handler on the event loop runs to its end (the wait of line
\* 157 is bounded); a killed process exits. A process that was not killed
\* need never exit, and no request need ever be made.
Fairness ==
  /\ \A s \in Sessions : WF_vars(Runs(s)) /\ SF_vars(Resumes(s))
  /\ WF_vars(CancelRuns)
  /\ \A p \in Sessions : WF_vars(Dies(p))

\* The steps of Next for requests that get as far as the registry: a cancel
\* is only ever confirmed for a session that passed validation, enumeration
\* and the launch, so the inputs that end a stream before line 100 are left
\* out; what the process writes and how it exits is not restricted.
NextStarted ==
  \/ \E s \in Sessions, url \in PAIR_URLS : download_endpoint(s, url)
  \/ \E s \in Sessions : Validate(s, TRUE)
  \/ \E s \in Sessions, run \in PAIR_RUNS : Enumerate(s, run)
  \/ \E s \in Sessions : Launch(s, TRUE)
  \/ \E s \in Sessions : Register(s)
  \/ \E s \in Sessions : ReadLine(s)
  \/ \E s \in Sessions : NextLine(s)
  \/ \E s \in Sessions : Finish(s)
  \/ \E s \in Sessions : CleanupCheck(s)
  \/ \E s \in Sessions : CleanupDel(s)
  \/ \E p \in Sessions, line \in LINES : ProcWrite(p, line)
  \/ \E p \in Sessions, rc \in {0, 1, -15, -9}, err \in ERR_TEXTS : ProcExit(p, rc, err)
  \/ \E sid \in Sessions : CancelCheck(sid)
  \/ CancelGet
  \/ CancelTerminate
  \/ CancelWaitExited
  \/ CancelWaitTimeout
  \/ CancelDel
  \/ CancelRespond

FairSpec == Init /\ [][NextStarted]_vars /\ Fairness

\* ------------------------------------------------------------------ claims
Kinds(s) == [i \in 1..Len(events[s]) |-> events[s][i].kind]

\* The generator has yielded its last event: it is suspended there or has ended.
StreamOver(s) == pc[s] \in Terminal \cup {"del", "done", "fault"}

\* The download process wrote only lines that are skipped or carry a title.
OnlyTitles(s) == \A i \in 1..Len(written[s]) : written[s][i].k = "title"

\* events[s] is a total event with value n, then k progress events counting
\* 1..k with total n, then the event last, and nothing else.
StreamIs(s, n, k, last) ==
  /\ Len(events[s]) = k + 2
  /\ events[s][1] = TotalEvent(n)
  /\ \A i \in 1..k :
       /\ events[s][i + 1].kind = "progress"
       /\ events[s][i + 1].completed = i
       /\ events[s][i + 1].total = n
  /\ events[s][k + 2] = last

\* C1: when enumeration reported N items and the download process wrote N
\* title-bearing records and exited with code 0, the finished stream is the
\* total event with N, N progress events counting 1..N with total N, then
\* complete; once the generator has ended the id is not in the registry.
C1_SuccessStream ==
  \A s \in Sessions :
    (/\ StreamOver(s)
     /\ pstate[s] = "exited"
     /\ returncode[s] = 0
     /\ OnlyTitles(s)
     /\ Len(written[s]) = total_videos[s])
    => /\ StreamIs(s, total_videos[s], total_videos[s], CompleteEvent)
       /\ Ended(s) => ~Registered(s)

C1_Witness ==
  \E s \in Sessions :
    /\ pc[s] = "done"
    /\ returncode[s] = 0
    /\ OnlyTitles(s)
    /\ total_videos[s] = 2
    /\ Len(written[s]) = 2
    /\ Kinds(s) = <<"total", "progress", "progress", "complete">>

\* C2: when the download process exited with a non-zero code after k < N
\* title-bearing records (and its output and standard error can be read
\* without an exception), the finished stream is the total event, k progress
\* events, then one error event carrying the process's standard error, with
\* no complete event; once the generator has ended the id is not in the
\* registry.
C2_FailureStream ==
  \A s \in Sessions :
    (/\ StreamOver(s)
     /\ pstate[s] = "exited"
     /\ returncode[s] # 0
     /\ stderr[s] # Undecodable
     /\ OnlyTitles(s)
     /\ Len(written[s]) < total_videos[s])
    => /\ StreamIs(s, total_videos[s], Len(written[s]),
                   ErrorEvent(<<"Download failed", stderr[s]>>))
       /\ \A i \in 1..Len(events[s]) : events[s][i].kind # "complete"
       /\ Ended(s) => ~Registered(s)

C2_Witness ==
  \E s \in Sessions :
    /\ pc[s] = "done"
    /\ returncode[s] = 1
    /\ stderr[s] = "ERROR: unavailable"
    /\ total_videos[s] = 2
    /\ Len(written[s]) = 1
    /\ OnlyTitles(s)
    /\ Kinds(s) = <<"total", "progress", "error">>

\* C3: a request whose URL does not match the YouTube pattern yields exactly
\* one error event and ends; no enumeration run and no download process is
\* started for it and its id never enters the registry.
C3_InvalidUrl ==
  \A s \in Sessions :
    (pc[s] # "unused" /\ ~validate_youtube_url(playlist_url[s]))
    => /\ ~enumerated[s]
       /\ pstate[s] = "none"
       /\ ~Registered(s)
       /\ removals[s] = 0
       /\ pc[s] \in {"created", "y_invalid", "done"}
       /\ events[s] = IF pc[s] = "created" THEN <<>>
                      ELSE <<ErrorEvent(<<"Invalid YouTube URL">>)>>

C3_Witness ==
  \E s \in Sessions :
    /\ pc[s] = "done"
    /\ ~validate_youtube_url(playlist_url[s])
    /\ Kinds(s) = <<"error">>

\* C4: a cancel request for an id that is in the registry at line 150 ends
\* with the confirmation, and then the process has been told to terminate,
\* has exited or been killed, and the id is no longer in the registry.
C4_CancelConfirms ==
  (cpc \in Responses /\ cpc # "notfound")
  => /\ cpc = "confirmed"
     /\ terminated[cproc]
     /\ pstate[cproc] = "exited" \/ killed[cproc]
     /\ ~Registered(csid)

\* C5: a cancel request for an id that is not in the registry ends with the
\* not-found result; neither the test nor the response changes the registry
\* or signals a process.
C5_CancelAbsent ==
  [][/\ (cpc = "idle" /\ cpc' # "idle" /\ csid' \notin DOMAIN download_sessions)
        => /\ cpc' = "notfound"
           /\ UNCHANGED <<download_sessions, removals, terminated, killed>>
     /\ (cpc = "notfound" /\ cpc' # "notfound")
        => /\ cpc' = "idle"
           /\ UNCHANGED <<download_sessions, removals, terminated, killed>>]_vars

C5_Witness ==
  /\ cpc = "notfound"
  /\ csid = "s2"
  /\ Registered("s1")
  /\ pstate["s1"] = "running"

\* A terminal event (complete or error) has been emitted on the stream.
TerminalEmitted(s) ==
  \E i \in 1..Len(events[s]) : events[s][i].kind \in {"complete", "error"}

KnownExited(s) ==
  \/ pc[s] \in {"y_complete", "y_failed"}
  \/ cpc = "del" /\ cproc = s /\ pstate[s] = "exited"

\* The session id has been stored in the registry (line 100).
Inserted(s) == pstate[s] # "none" /\ pc[s] # "register"

\* C7 as stated: the registry holds an entry for a session exactly when its
\* download process has been started and is alive or exiting: no entry for a
\* process known to have exited, no stored live process missing.
C7_RegistryIffAlive ==
  \A s \in Sessions :
    /\ Registered(s) => (pstate[s] # "none" /\ ~KnownExited(s))
    /\ (pstate[s] = "running" /\ Inserted(s)) => Registered(s)

\* C7 as amended: every entry belongs to a session whose download process
\* has been started and whose generator has not ended, and is that process;
\* a stored live process is in the registry until something removes its id.
C7_EntryOfStarted ==
  \A s \in Sessions :
    /\ Registered(s) => /\ pstate[s] # "none"
                        /\ download_sessions[s] = s
                        /\ ~Ended(s)
    /\ (pstate[s] = "running" /\ Inserted(s) /\ removals[s] = 0) => Registered(s)

C7_Witness ==
  \E s \in Sessions :
    /\ Registered(s)
    /\ pstate[s] = "exited"
    /\ pc[s] = "y_failed"

\* C8: an id that was stored in the registry is removed from it exactly once:
\* never twice, and once the generator has ended (after exit code 0, a
\* non-zero exit, an exception or a cancel) it has been removed and is absent.
C8_RemovedOnce ==
  \A s \in Sessions :
    /\ removals[s] <= 1
    /\ removals[s] = 1 => (Inserted(s) /\ ~Registered(s))
    /\ (Ended(s) /\ Inserted(s)) => removals[s] = 1
    /\ (Ended(s) /\ ~Inserted(s)) => removals[s] = 0

C8_Witness ==
  \E s \in Sessions :
    /\ Ended(s)
    /\ terminated[s]
    /\ removals[s] = 1
    /\ ~Registered(s)

\* C9: no operation ends in an unhandled fault: the cancel handler never
\* ends with an uncaught KeyError and no generator raises out of its cleanup.
C9_NoUnhandledFault ==
  /\ cpc # "KeyError"
  /\ \A s \in Sessions : pc[s] # "fault"

\* The enumeration run was made and get_total_videos raised.
EnumFailed(s) == enumerated[s] /\ total_videos[s] = -1

\* C10: when enumeration fails the stream is exactly one error event, without
\* a total or progress event; no download process is started and the id never
\* enters the registry.
C10_EnumFailure ==
  \A s \in Sessions :
    EnumFailed(s)
    => /\ events[s] = <<ErrorEvent(<<"Failed to get playlist info">>)>>
       /\ pc[s] \in {"y_enumfail", "done"}
       /\ pstate[s] = "none"
       /\ ~Registered(s)
       /\ removals[s] = 0

C10_Witness ==
  \E s \in Sessions :
    /\ EnumFailed(s)
    /\ pc[s] = "done"
    /\ Kinds(s) = <<"error">>

\* A complete event has been emitted on the stream.
CompleteEmitted(s) ==
  \E i \in 1..Len(events[s]) : events[s][i].kind = "complete"

\* C11: a session ends in at most one of completed, cancelled and errored: a
\* cancel request is confirmed only while the stream has emitted neither
\* complete nor error, and a session whose cancel was confirmed has no
\* complete event.
C11_OneTerminalState ==
  /\ cpc = "confirmed" => ~TerminalEmitted(csid)
  /\ \A s \in Sessions : cancelled[s] => ~CompleteEmitted(s)

\* C12: a stream that has run to its end holds exactly one terminal event
\* (complete or error) and it is the last event, also after an exception while
\* reading the output or the standard error; before that it holds none; and
\* complete is emitted only with all output read and exit code 0.
C12_OneTerminalEvent ==
  \A s \in Sessions :
    /\ StreamOver(s) =>
         /\ events[s] # <<>>
         /\ events[s][Len(events[s])].kind \in {"complete", "error"}
         /\ \A i \in 1..(Len(events[s]) - 1) :
              events[s][i].kind \notin {"complete", "error"}
    /\ ~StreamOver(s) => ~TerminalEmitted(s)
    /\ CompleteEmitted(s) =>
         /\ stdout[s] = <<>>
         /\ pstate[s] = "exited"
         /\ returncode[s] = 0

C12_Witness ==
  \E s \in Sessions :
    /\ pc[s] = "done"
    /\ Kinds(s) = <<"total", "progress", "error">>
    /\ events[s][3].msg \in {<<"exception", "reading output">>,
                             <<"exception", "reading stderr">>}

\* The lines the loop discards.
Skipped == {"blank", "garbage", "notitle"}

\* C13: reading a line that is blank, is not JSON or is a record without a
\* title emits no event, leaves the completed count as it is and leaves the
\* generator in the loop: no error event, no end of the stream.
C13_SkippedLines ==
  [][\A s \in Sessions :
       (/\ pc[s] = "read"
        /\ stdout[s] # <<>>
        /\ Head(stdout[s]).k \in Skipped
        /\ stdout'[s] = Tail(stdout[s]))
       => /\ events'[s] = events[s]
          /\ completed_videos'[s] = completed_videos[s]
          /\ pc'[s] = "read"]_vars

C13_Witness ==
  \E s \in Sessions :
    /\ pc[s] = "y_complete"
    /\ nlines = 2
    /\ Len(written[s]) = 1
    /\ Kinds(s) = <<"total", "progress", "complete">>

IsTitle(line) == line.k = "title"
IsProgress(e) == e.kind = "progress"

\* The title-bearing lines the process has written, in order.
TitleLines(s) == SelectSeq(written[s], IsTitle)

\* The progress events of the stream, in order.
ProgressEvents(s) == SelectSeq(events[s], IsProgress)

\* The loop has read the output to its end (lines 120-126 were reached).
OutputRead(s) ==
  /\ TerminalEmitted(s)
  /\ \/ events[s][Len(events[s])].kind = "complete"
     \/ events[s][Len(events[s])].msg \in
          {<<"Download failed", t>> : t \in ERR_TEXTS} \cup {<<"exception", "reading stderr">>}

\* C14: in each session the i-th progress event carries the title of the
\* i-th title-bearing line its process wrote and completed = i, and once the
\* output is read to its end there is one progress event per such line,
\* whatever the other session does meanwhile.
C14_ProgressInOrder ==
  \A s \in Sessions :
    /\ Len(ProgressEvents(s)) <= Len(TitleLines(s))
    /\ \A i \in 1..Len(ProgressEvents(s)) :
         /\ ProgressEvents(s)[i].video = TitleLines(s)[i].t
         /\ ProgressEvents(s)[i].completed = i
    /\ OutputRead(s) => Len(ProgressEvents(s)) = Len(TitleLines(s))

C14_Witness ==
  \E s, t \in Sessions :
    /\ s # t
    /\ Len(ProgressEvents(s)) = 2
    /\ ProgressEvents(s)[1].video = "b"
    /\ ProgressEvents(s)[2].video = "a"
    /\ t \in list_sessions
    /\ pc[t] = "read"

\* The terminate sequence of lines 155-159 is over for the handler's process.
SequenceDone == terminated[cproc] /\ (pstate[cproc] = "exited" \/ killed[cproc])

\* C15: the cancel handler signals by the grace-period protocol: terminate
\* comes first; kill is sent only from the wait, on a process that was told to
\* terminate and is still running when the wait times out, so never on one
\* that exited within the grace period; and the handler deletes the registry
\* entry only after the terminate sequence is over.
C15_GraceProtocol ==
  /\ [](\A p \in Sessions : killed[p] => terminated[p])
  /\ [](cpc \in {"del", "confirmed"} => SequenceDone)
  /\ [][/\ \A p \in Sessions :
             (killed'[p] /\ ~killed[p])
             => (cpc = "wait" /\ cproc = p /\ terminated[p] /\ pstate[p] = "running")
        /\ \A s \in Sessions :
             (cancelled'[s] /\ ~cancelled[s])
             => (cpc = "del" /\ csid = s /\ SequenceDone)]_vars

C15_Witness ==
  /\ cpc = "confirmed"
  /\ killed[cproc]
  /\ terminated[cproc]
  /\ pstate[cproc] = "running"

\* C16: once a cancel request for a session was confirmed, its generator
\* eventually has emitted its terminal event and has ended, with the id out
\* of the registry; and the id is never in the registry again.
C16_CancelledStreamEnds ==
  /\ \A s \in Sessions :
       cancelled[s] ~> (Ended(s) /\ TerminalEmitted(s) /\ ~Registered(s))
  /\ [](\A s \in Sessions : cancelled[s] => ~Registered(s))

C16_Witness ==
  \E s \in Sessions :
    /\ cancelled[s]
    /\ killed[s]
    /\ returncode[s] = -9
    /\ pc[s] = "done"
    /\ ~Registered(s)

\* A step of the cancel handler working on session a.
CancelStep(a) ==
  /\ cpc' # cpc
  /\ \/ cpc # "idle" /\ csid = a
     \/ cpc = "idle" /\ csid' = a

\* A step of a's generator that registers the id or belongs to its cleanup.
RegistryStep(a) ==
  /\ pc[a] \in {"register", "del"} \cup Terminal
  /\ pc'[a] # pc[a]

\* What the program holds for session b: its entry, its process and the
\* signals sent to it, its count.
Untouched(b) ==
  /\ Registered(b)' = Registered(b)
  /\ Registered(b) => download_sessions'[b] = download_sessions[b]
  /\ pstate'[b] = pstate[b]
  /\ returncode'[b] = returncode[b]
  /\ terminated'[b] = terminated[b]
  /\ killed'[b] = killed[b]
  /\ completed_videos'[b] = completed_videos[b]
  /\ removals'[b] = removals[b]
  /\ cancelled'[b] = cancelled[b]

\* C17: a step of the cancel handler for session a, and a step of a's
\* generator that inserts or removes its id, leave every other session's
\* entry, process, signals and count as they were.
C17_Isolated ==
  [][\A a \in Sessions :
       (CancelStep(a) \/ RegistryStep(a))
       => \A b \in Sessions \ {a} : Untouched(b)]_vars

C17_Witness ==
  /\ cancelled["s1"]
  /\ terminated["s1"]
  /\ pc["s1"] = "done"
  /\ Registered("s2")
  /\ download_sessions["s2"] = "s2"
  /\ pstate["s2"] = "running"
  /\ ~terminated["s2"]
  /\ completed_videos["s2"] >= 1

\* The generator has not reached line 100: the request was made and the
\* generator is validating, enumerating, suspended at the yield of the total,
\* or has ended on one of the two early error events, or is at line 100.
BeforeInsert(s) ==
  pc[s] \in {"created", "enumerate", "y_invalid", "y_enumfail", "y_total", "register"}

\* C18: the id is in the registry only after the URL was found valid, the
\* enumeration succeeded and the total event was emitted, and it is there
\* before the first progress event; before that the id is absent, and a cancel
\* request for it gets the not-found result and changes nothing but the
\* handler's own position, so the download goes on as it would have.
C18_InsertedAfterTotal ==
  /\ [](\A s \in Sessions :
          /\ Registered(s) =>
               /\ validate_youtube_url(playlist_url[s])
               /\ enumerated[s]
               /\ total_videos[s] >= 0
               /\ events[s] # <<>>
               /\ events[s][1] = TotalEvent(total_videos[s])
          /\ ProgressEvents(s) # <<>> => Inserted(s)
          /\ BeforeInsert(s) =>
               /\ ~Registered(s)
               /\ ProgressEvents(s) = <<>>
               /\ ~terminated[s] /\ ~killed[s] /\ ~cancelled[s])
  /\ [][\A s \in Sessions :
          /\ (cpc = "idle" /\ cpc' # "idle" /\ csid' = s /\ BeforeInsert(s))
             => /\ cpc' = "notfound"
                /\ UNCHANGED <<regVars, genVars, procVars, sigVars>>
          /\ (cpc = "notfound" /\ cpc' # "notfound" /\ csid = s)
             => /\ cpc' = "idle"
                /\ UNCHANGED <<regVars, genVars, procVars, sigVars>>]_vars

C18_Witness ==
  /\ cpc = "notfound"
  /\ csid = "s1"
  /\ pc["s1"] = "enumerate"
  /\ validate_youtube_url(playlist_url["s1"])
  /\ ~Registered("s1")
  /\ pstate["s1"] = "none"

====
